---- MODULE Spec2Model ----
(***************************************************************************)
(* The LG Channels M3U/EPG generator (src/lgchannels_generator.py) as a    *)
(* state machine: fetch_data with its retry loop, get_channels with its    *)
(* per-entry normalisation, generate_m3u_playlist, generate_epg_xml with   *)
(* get_epg_data and format_time, save_gzipped_xml and main.                *)
(*                                                                         *)
(* Text is a sequence of tokens (a token is a piece of a string that the   *)
(* program never looks inside); a JSON value is a record [t, v] whose tag  *)
(* t is "absent" (the key is not there), "null", "str", "num" or "list".   *)
(* Field values are single-line text.                                      *)
(***************************************************************************)
EXTENDS Integers, Sequences, FiniteSets, TLC

VARIABLES
    pc,           \* where main is
    dirExists,    \* os.path.exists(OUTPUT_DIR)
    fState,       \* fetch_data: "idle", "attempt", "returned" or "raised"
    fRetries,     \* fetch_data: its retries parameter
    fAttempt,     \* fetch_data: the loop variable attempt
    fLog,         \* fetch_data: the outcome of each requests.get so far
    fSleeps,      \* fetch_data: the argument of each time.sleep so far
    fResult,      \* fetch_data: the value returned
    rawChannels,  \* get_channels: data['channels']
    normIdx,      \* get_channels: entries of data['channels'] already processed
    channels,     \* get_channels: the list channels; then main's channels
    warnings,     \* get_channels: the entries logged by logging.warning
    lineup,       \* how get_channels ended: "", "failed", "nokey", "list"
    m3uFile,      \* the playlist file: <<>> when absent, else <<content>>
    m3uAttempts,  \* how many times main opened the playlist file for writing
    tv,           \* generate_epg_xml: the children of the <tv> element, in order
    chIdx,        \* generate_epg_xml: channels done by the first loop
    epgIdx,       \* generate_epg_xml: channels done by the second loop
    epgLog,       \* what get_epg_data returned for each channel queried
    epgFile,      \* the guide file: <<>> when absent, else <<tree>>
    epgAttempts   \* how many times save_gzipped_xml was called

vars == <<pc, dirExists, fState, fRetries, fAttempt, fLog, fSleeps, fResult,
          rawChannels, normIdx, channels, warnings, lineup, m3uFile,
          m3uAttempts, tv, chIdx, epgIdx, epgLog, epgFile, epgAttempts>>

fetchVars == <<fState, fRetries, fAttempt, fLog, fSleeps, fResult>>
mainVars == <<dirExists, rawChannels, normIdx, channels, warnings, lineup,
              m3uFile, m3uAttempts, tv, chIdx, epgIdx, epgLog, epgFile,
              epgAttempts>>

(***************************************************************************)
(* Bounds of the model.                                                    *)
(***************************************************************************)
MaxChannels == 2
MaxPrograms == 1
MaxRetries == 3

(***************************************************************************)
(* Configuration.                                                          *)
(***************************************************************************)
BASE_URL == <<"http", "s://us.lgchannels.com">>
EPG_FILENAME == <<"lgchannels_epg.xml.gz">>
DefaultRetries == 2

(***************************************************************************)
(* JSON values and Python's view of them.                                  *)
(***************************************************************************)
Absent == [t |-> "absent", v |-> <<>>]
JNull == [t |-> "null", v |-> <<>>]
JStr(s) == [t |-> "str", v |-> s]
JNum(n) == [t |-> "num", v |-> <<n>>]
JList(s) == [t |-> "list", v |-> s]

\* dict.get(key, default): the default only when the key is absent; a key
\* that is there with the value null gives None.
Get(value, default) == IF value.t = "absent" THEN default ELSE value

\* dict.get(key): None when the key is absent.
GetOrNone(value) == Get(value, JNull)

\* bool(x): None, "", 0 and [] are false.
Truthy(x) ==
    /\ x.t \notin {"absent", "null"}
    /\ ~(x.t \in {"str", "list"} /\ x.v = <<>>)
    /\ ~(x.t = "num" /\ x.v = <<"0">>)

\* x.startswith('http') of a str.
StartsWithHttp(x) == Len(x.v) >= 1 /\ x.v[1] = "http"

\* The f-string / str() rendering of a value: None prints as None.
Format(x) == IF x.t \in {"absent", "null"} THEN <<"None">> ELSE x.v

RECURSIVE SeqsUpTo(_, _)
SeqsUpTo(S, n) ==
    IF n = 0 THEN {<<>>}
    ELSE LET shorter == SeqsUpTo(S, n - 1)
         IN  shorter \cup {Append(s, x) : s \in {q \in shorter : Len(q) = n - 1}, x \in S}

(***************************************************************************)
(* fetch_data(url, params, headers, retries).                              *)
(***************************************************************************)
\* How one attempt can raise a requests.exceptions.RequestException: requests.get
\* raises (no connection, or REQUEST_TIMEOUT is over), or raise_for_status does
\* (the status is not 2xx).
RequestFailures == {"request_error", "http_error"}

\* response.json() on a body that does not parse raises
\* requests.exceptions.JSONDecodeError, a RequestException, from requests 2.27
\* on, and before that the json module's own error, a ValueError (on any
\* version, RecursionError on a body nested too deep): the except clause of
\* fetch_data catches the former and not the latter.
JsonErrorIsRequestException == BOOLEAN

None == [kind |-> "none", channels |-> Absent, programs |-> Absent]

\* A parsed JSON object, by the two keys the program reads: truthy iff it has any key.
JObject(chs, progs, other) ==
    [kind |-> IF chs.t = "absent" /\ progs.t = "absent" /\ ~other
              THEN "empty_object" ELSE "object",
     channels |-> chs, programs |-> progs]

\* `not data`: None and {} are false.
Falsy(data) == data.kind \in {"none", "empty_object"}

\* FetchExcept with the sleep counted from 0: time.sleep(1 * attempt).
FetchExceptSleepsFromZero ==
    IF fAttempt = fRetries
    THEN /\ fState' = "returned"
         /\ fResult' = None
         /\ UNCHANGED <<fAttempt, fSleeps>>
    ELSE /\ fSleeps' = Append(fSleeps, 1 * fAttempt)
         /\ fAttempt' = fAttempt + 1
         /\ UNCHANGED <<fState, fResult>>

\* The except branch of one iteration (lines 70-76).
FetchExcept ==
    IF fAttempt = fRetries
    THEN /\ fState' = "returned"
         /\ fResult' = None
         /\ UNCHANGED <<fAttempt, fSleeps>>
    ELSE /\ fSleeps' = Append(fSleeps, 1 * (fAttempt + 1))
         /\ fAttempt' = fAttempt + 1
         /\ UNCHANGED <<fState, fResult>>

\* One iteration of the loop whose request succeeds and whose body parses.
FetchSucceeds(responses) ==
    /\ fState = "attempt"
    /\ fAttempt <= fRetries
    /\ \E data \in responses :
          /\ fLog' = Append(fLog, "ok")
          /\ fState' = "returned"
          /\ fResult' = data
    /\ UNCHANGED <<fRetries, fAttempt, fSleeps>>

\* One iteration of the loop whose request raises a RequestException.
FetchRequestFails ==
    /\ fState = "attempt"
    /\ fAttempt <= fRetries
    /\ \E failure \in RequestFailures : fLog' = Append(fLog, failure)
    /\ FetchExcept
    /\ UNCHANGED fRetries

\* One iteration of the loop whose 2xx response has a body that is not JSON.
FetchBodyNotJson ==
    /\ fState = "attempt"
    /\ fAttempt <= fRetries
    /\ fLog' = Append(fLog, "invalid_json")
    /\ \E caught \in JsonErrorIsRequestException :
          IF caught
          THEN FetchExcept
          ELSE /\ fState' = "raised"
               /\ UNCHANGED <<fAttempt, fSleeps, fResult>>
    /\ UNCHANGED fRetries

\* The loop ends without having returned (range(retries + 1) is empty): line 77.
FetchLoopEnds ==
    /\ fState = "attempt"
    /\ fAttempt > fRetries
    /\ fState' = "returned"
    /\ fResult' = None
    /\ UNCHANGED <<fRetries, fAttempt, fLog, fSleeps>>

\* The state of fetch_data when it is called with retries = r.
FetchCalled(r) ==
    /\ fState' = "attempt"
    /\ fRetries' = r
    /\ fAttempt' = 0
    /\ fLog' = <<>>
    /\ fSleeps' = <<>>
    /\ fResult' = None

\* The caller has taken the result.
FetchIdle ==
    /\ fState' = "idle"
    /\ fRetries' = 0
    /\ fAttempt' = 0
    /\ fLog' = <<>>
    /\ fSleeps' = <<>>
    /\ fResult' = None

(***************************************************************************)
(* The upstream API's answers.                                             *)
(***************************************************************************)
\* One entry of the lineup's "channels" array. obj: the entry is a JSON object.
RawEntry(id, name, logo, stream, cats) ==
    [obj |-> TRUE, channelId |-> id, name |-> name, channelNumber |-> Absent,
     logoUrl |-> logo, streamUrl |-> stream, description |-> Absent,
     categories |-> cats]

\* An entry that is a JSON string, not an object.
NotAnObject ==
    [obj |-> FALSE, channelId |-> Absent, name |-> Absent, channelNumber |-> Absent,
     logoUrl |-> Absent, streamUrl |-> Absent, description |-> Absent,
     categories |-> Absent]

RelativeUrl(path) == JStr(<<path>>)
AbsoluteUrl(rest) == JStr(<<"http", rest>>)

RawEntries ==
    { RawEntry(JNum("1"), JStr(<<"One">>), RelativeUrl("/logo/1.png"),
               RelativeUrl("/stream/1.m3u8"), JList(<<"News", "Kids">>)),
      RawEntry(JStr(<<"2">>), Absent, Absent,
               AbsoluteUrl("://cdn/2.m3u8"), Absent),
      RawEntry(JNum("3"), JNull, AbsoluteUrl("://cdn/3.png"),
               Absent, JList(<<"Movies">>)),
      RawEntry(JNum("5"), JStr(<<"Five">>), Absent,
               JNum("5"), Absent),
      NotAnObject }

\* One entry of an EPG answer's "programs" array.
RawProgram(start, stop, title, desc, genre) ==
    [obj |-> TRUE, startTime |-> start, endTime |-> stop, title |-> title,
     description |-> desc, genre |-> genre]

ProgramNotAnObject ==
    [obj |-> FALSE, startTime |-> Absent, endTime |-> Absent, title |-> Absent,
     description |-> Absent, genre |-> Absent]

RawPrograms ==
    { RawProgram(JStr(<<"2024", "01", "15", "10", "30", "00", "Z">>),
                 JStr(<<"2024", "01", "15", "11", "00", "00", "-05:00">>),
                 JStr(<<"Show">>), JStr(<<"About">>), JList(<<"Drama", "Crime">>)),
      RawProgram(JStr(<<"soon">>), Absent, Absent, Absent, JStr(<<"Talk">>)),
      ProgramNotAnObject }

\* The bodies the lineup endpoint can answer with: an object with a "channels"
\* array, one whose "channels" is null, one without that key, the empty object.
LineupResponses ==
    { JObject(JList(chs), Absent, FALSE) : chs \in SeqsUpTo(RawEntries, MaxChannels) }
        \cup { JObject(JNull, Absent, FALSE),
               JObject(Absent, Absent, TRUE), JObject(Absent, Absent, FALSE) }

\* The bodies the EPG endpoint can answer with: an object with a "programs"
\* array, one whose "programs" is null, one without that key, the empty object.
EpgResponses ==
    { JObject(Absent, JList(ps), FALSE) : ps \in SeqsUpTo(RawPrograms, MaxPrograms) }
        \cup { JObject(Absent, JNull, FALSE),
               JObject(Absent, Absent, TRUE), JObject(Absent, Absent, FALSE) }

(***************************************************************************)
(* get_channels: one entry of data['channels'] (lines 93-114).             *)
(***************************************************************************)
NoRecord ==
    [id |-> JNull, name |-> JNull, number |-> JNull, logo |-> JNull,
     stream_url |-> JNull, description |-> JNull, categories |-> JNull]

\* The dict of lines 94-102.
ChannelInfo(channel) ==
    [id |-> GetOrNone(channel.channelId),
     name |-> Get(channel.name, JStr(<<"Unknown">>)),
     number |-> Get(channel.channelNumber, JStr(<<"0">>)),
     logo |-> Get(channel.logoUrl, JStr(<<>>)),
     stream_url |-> Get(channel.streamUrl, JStr(<<>>)),
     description |-> Get(channel.description, JStr(<<>>)),
     categories |-> Get(channel.categories, JList(<<>>))]

\* Lines 105-110 for one URL: a relative URL gets BASE_URL in front.
MakeAbsolute(url) ==
    IF Truthy(url) /\ ~StartsWithHttp(url) THEN JStr(BASE_URL \o url.v) ELSE url

\* url.startswith raises AttributeError when a truthy url is not a str.
StartsWithRaises(url) == Truthy(url) /\ url.t # "str"

\* What the try block does with one entry: "record" (appended), "skipped" (the
\* except clause logged a warning) or "raised" (the except clause itself raised:
\* its message calls channel.get again, which an entry that is no dict lacks).
NormalizeEntry(channel) ==
    IF ~channel.obj
    THEN [outcome |-> "raised", record |-> NoRecord]
    ELSE LET info == ChannelInfo(channel)
         IN  IF StartsWithRaises(info.stream_url) \/ StartsWithRaises(info.logo)
             THEN [outcome |-> "skipped", record |-> NoRecord]
             ELSE [outcome |-> "record",
                   record |-> [info EXCEPT !.stream_url = MakeAbsolute(info.stream_url),
                                           !.logo = MakeAbsolute(info.logo)]]

(***************************************************************************)
(* generate_m3u_playlist.                                                  *)
(***************************************************************************)
RECURSIVE Join(_)
\* ','.join(list)
Join(strs) ==
    IF strs = <<>> THEN <<>>
    ELSE IF Len(strs) = 1 THEN <<strs[1]>>
    ELSE <<strs[1], ",">> \o Join(Tail(strs))

ExtInfLine(channel) ==
    <<"#EXTINF:-1 tvg-id=\"">> \o Format(channel.id)
        \o <<"\" tvg-name=\"">> \o Format(channel.name)
        \o <<"\" tvg-logo=\"">> \o Format(channel.logo)
        \o <<"\" group-title=\"">> \o Join(channel.categories.v)
        \o <<"\",">> \o Format(channel.name)

\* PlaylistEntry without the test of stream_url.
PlaylistEntryKeepsAll(channel) ==
    <<ExtInfLine(channel), Format(channel.stream_url)>>

\* The lines one channel adds to m3u_content (lines 145-153).
PlaylistEntry(channel) ==
    IF ~Truthy(channel.stream_url)
    THEN <<>>
    ELSE <<ExtInfLine(channel), Format(channel.stream_url)>>

RECURSIVE PlaylistEntries(_)
PlaylistEntries(chs) ==
    IF chs = <<>> THEN <<>>
    ELSE PlaylistEntry(Head(chs)) \o PlaylistEntries(Tail(chs))

\* m3u_content, as its lines.
generate_m3u_playlist(chs) ==
    << <<"#EXTM3U x-tvg-url=">> \o EPG_FILENAME >> \o PlaylistEntries(chs)

(***************************************************************************)
(* format_time and generate_epg_xml.                                       *)
(***************************************************************************)
Digits == {"2024", "01", "15", "10", "11", "30", "00"}
Offsets == {"+00:00", "-05:00"}

\* time_str.replace('Z', '+00:00')
ReplaceZ(s) == [i \in DOMAIN s |-> IF s[i] = "Z" THEN "+00:00" ELSE s[i]]

\* Whether datetime.fromisoformat parses it: date and time, then no offset or one.
IsIso(s) ==
    /\ Len(s) \in {6, 7}
    /\ \A i \in 1..6 : s[i] \in Digits
    /\ Len(s) = 7 => s[7] \in Offsets

\* %z: the offset without its colon, nothing for a naive datetime.
CompactOffset(o) == IF o = "+00:00" THEN "+0000" ELSE "-0500"

format_time(time_str) ==
    IF ~Truthy(time_str) THEN <<>>
    ELSE IF time_str.t # "str" THEN <<>>
    ELSE LET s == ReplaceZ(time_str.v)
         IN  IF ~IsIso(s) THEN <<>>
             ELSE SubSeq(s, 1, 6) \o <<" ">>
                    \o (IF Len(s) = 7 THEN <<CompactOffset(s[7])>> ELSE <<>>)

Attr(name, value) == [name |-> name, value |-> value]
Child(tag, text) == [tag |-> tag, text |-> text]

\* Lines 163-166: the <channel> element of one channel.
ChannelElement(channel) ==
    [tag |-> "channel",
     attrs |-> <<Attr("id", Format(channel.id))>>,
     children |-> <<Child("display-name", channel.name)>>
                    \o (IF Truthy(channel.logo)
                        THEN <<Child("icon", channel.logo)>> ELSE <<>>)]

\* Lines 184-190: the <category> children.
Categories(program) ==
    IF program.genre.t = "absent" THEN <<>>
    ELSE IF program.genre.t = "list"
    THEN [i \in DOMAIN program.genre.v |-> Child("category", JStr(<<program.genre.v[i]>>))]
    ELSE <<Child("category", program.genre)>>

\* ProgrammeElement with the channel's number as the channel attribute.
ProgrammeElementByNumber(channel, program) ==
    [tag |-> "programme",
     attrs |-> <<Attr("channel", Format(channel.number)),
                 Attr("start", format_time(GetOrNone(program.startTime))),
                 Attr("stop", format_time(GetOrNone(program.endTime)))>>,
     children |-> <<Child("title", Get(program.title, JStr(<<"Unknown">>)))>>
                    \o (IF program.description.t # "absent"
                        THEN <<Child("desc", program.description)>> ELSE <<>>)
                    \o Categories(program)]

\* Lines 173-190: the <programme> element of one program of one channel.
ProgrammeElement(channel, program) ==
    [tag |-> "programme",
     attrs |-> <<Attr("channel", Format(channel.id)),
                 Attr("start", format_time(GetOrNone(program.startTime))),
                 Attr("stop", format_time(GetOrNone(program.endTime)))>>,
     children |-> <<Child("title", Get(program.title, JStr(<<"Unknown">>)))>>
                    \o (IF program.description.t # "absent"
                        THEN <<Child("desc", program.description)>> ELSE <<>>)
                    \o Categories(program)]

RECURSIVE ProgrammeElements(_, _)
\* Lines 171-192: a program that is no dict raises in the try and is skipped.
ProgrammeElements(channel, programs) ==
    IF programs = <<>> THEN <<>>
    ELSE (IF Head(programs).obj
          THEN <<ProgrammeElement(channel, Head(programs))>> ELSE <<>>)
            \o ProgrammeElements(channel, Tail(programs))

\* Lines 134-138: what get_epg_data returns for fetch_data's result.
EpgPrograms(data) ==
    IF Falsy(data) \/ data.programs.t = "absent" THEN JList(<<>>) ELSE data.programs

\* ET.tostring raises TypeError on a text that is neither a str nor None.
Serializable(tree) ==
    \A i \in DOMAIN tree : \A j \in DOMAIN tree[i].children :
        tree[i].children[j].text.t \in {"str", "null"}

(***************************************************************************)
(* main and the functions it calls, one action per step.                   *)
(***************************************************************************)
Raised ==
    {"raised_makedirs", "raised_fetch_data", "raised_get_channels",
     "raised_generate_epg_xml"}

\* ensure_output_dir (lines 44-52): os.makedirs may raise OSError, re-raised.
EnsureOutputDir ==
    /\ pc = "ensure_output_dir"
    /\ IF dirExists
       THEN pc' = "get_channels" /\ UNCHANGED dirExists
       ELSE \E created \in BOOLEAN :
               IF created
               THEN pc' = "get_channels" /\ dirExists' = TRUE
               ELSE pc' = "raised_makedirs" /\ UNCHANGED dirExists
    /\ UNCHANGED <<fetchVars, rawChannels, normIdx, channels, warnings, lineup,
                   m3uFile, m3uAttempts, tv, chIdx, epgIdx, epgLog, epgFile,
                   epgAttempts>>

\* get_channels calls fetch_data(lineup_url) (line 85).
GetChannelsCall ==
    /\ pc = "get_channels"
    /\ pc' = "fetch_lineup"
    /\ FetchCalled(DefaultRetries)
    /\ UNCHANGED mainVars

\* fetch_data at work for get_channels or get_epg_data.
FetchLineupSucceeds ==
    /\ pc = "fetch_lineup"
    /\ FetchSucceeds(LineupResponses)
    /\ UNCHANGED <<pc, mainVars>>

FetchEpgSucceeds ==
    /\ pc = "get_epg_data"
    /\ FetchSucceeds(EpgResponses)
    /\ UNCHANGED <<pc, mainVars>>

FetchFails ==
    /\ pc \in {"fetch_lineup", "get_epg_data", "fetch_data"}
    /\ FetchRequestFails
    /\ UNCHANGED <<pc, mainVars>>

FetchNotJson ==
    /\ pc \in {"fetch_lineup", "get_epg_data", "fetch_data"}
    /\ FetchBodyNotJson
    /\ UNCHANGED <<pc, mainVars>>

\* An exception that left fetch_data leaves get_channels or get_epg_data,
\* generate_epg_xml and main as well: nothing on the way catches it.
FetchRaised ==
    /\ pc \in {"fetch_lineup", "get_epg_data"}
    /\ fState = "raised"
    /\ pc' = "raised_fetch_data"
    /\ UNCHANGED <<fetchVars, mainVars>>

\* Lines 87-92: fetch_data has returned. Iterating over a data['channels'] that
\* is no list raises TypeError, which nothing catches.
GetChannelsFetched ==
    /\ pc = "fetch_lineup"
    /\ fState = "returned"
    /\ IF Falsy(fResult) \/ fResult.channels.t = "absent"
       THEN /\ lineup' = IF fResult = None THEN "failed" ELSE "nokey"
            /\ channels' = <<>>
            /\ pc' = "got_channels"
            /\ UNCHANGED rawChannels
       ELSE IF fResult.channels.t # "list"
       THEN /\ pc' = "raised_get_channels"
            /\ UNCHANGED <<rawChannels, channels, lineup>>
       ELSE /\ rawChannels' = fResult.channels.v
            /\ channels' = <<>>
            /\ pc' = "normalize"
            /\ UNCHANGED lineup
    /\ FetchIdle
    /\ UNCHANGED <<dirExists, normIdx, warnings, m3uFile, m3uAttempts, tv, chIdx,
                   epgIdx, epgLog, epgFile, epgAttempts>>

\* Lines 92-114: one iteration of the loop over data['channels'].
NormalizeStep ==
    /\ pc = "normalize"
    /\ normIdx < Len(rawChannels)
    /\ LET channel == rawChannels[normIdx + 1]
           done == NormalizeEntry(channel)
       IN  /\ normIdx' = normIdx + 1
           /\ channels' = IF done.outcome = "record"
                          THEN Append(channels, done.record) ELSE channels
           /\ warnings' = IF done.outcome = "skipped"
                          THEN Append(warnings, channel) ELSE warnings
           /\ pc' = IF done.outcome = "raised" THEN "raised_get_channels" ELSE pc
    /\ UNCHANGED <<dirExists, fetchVars, rawChannels, lineup, m3uFile, m3uAttempts,
                   tv, chIdx, epgIdx, epgLog, epgFile, epgAttempts>>

\* Lines 116-117: the loop is over, get_channels returns channels.
NormalizeDone ==
    /\ pc = "normalize"
    /\ normIdx = Len(rawChannels)
    /\ lineup' = "list"
    /\ pc' = "got_channels"
    /\ UNCHANGED <<dirExists, fetchVars, rawChannels, normIdx, channels, warnings,
                   m3uFile, m3uAttempts, tv, chIdx, epgIdx, epgLog, epgFile,
                   epgAttempts>>

\* MainNoChannels without the return: main goes on to the playlist.
MainNoChannelsGoesOn ==
    /\ pc = "got_channels"
    /\ channels = <<>>
    /\ m3uFile' = <<generate_m3u_playlist(channels)>>
    /\ m3uAttempts' = m3uAttempts + 1
    /\ pc' = "epg_channels"
    /\ UNCHANGED <<dirExists, fetchVars, rawChannels, normIdx, channels, warnings,
                   lineup, tv, chIdx, epgIdx, epgLog, epgFile, epgAttempts>>

\* Lines 234-236: no channels, main returns.
MainNoChannels ==
    /\ pc = "got_channels"
    /\ channels = <<>>
    /\ pc' = "aborted"
    /\ UNCHANGED <<fetchVars, mainVars>>

\* Lines 239-246: the playlist is rendered and written; a failed write is logged.
WritePlaylist ==
    /\ pc = "got_channels"
    /\ channels # <<>>
    /\ \E written \in BOOLEAN :
          m3uFile' = IF written THEN <<generate_m3u_playlist(channels)>> ELSE m3uFile
    /\ m3uAttempts' = m3uAttempts + 1
    /\ pc' = "epg_channels"
    /\ UNCHANGED <<dirExists, fetchVars, rawChannels, normIdx, channels, warnings,
                   lineup, tv, chIdx, epgIdx, epgLog, epgFile, epgAttempts>>

\* GenerateEpgChannel that passes over a channel without a stream URL.
GenerateEpgChannelStreamsOnly ==
    /\ pc = "epg_channels"
    /\ chIdx < Len(channels)
    /\ tv' = IF Truthy(channels[chIdx + 1].stream_url)
             THEN Append(tv, ChannelElement(channels[chIdx + 1])) ELSE tv
    /\ chIdx' = chIdx + 1
    /\ UNCHANGED <<pc, dirExists, fetchVars, rawChannels, normIdx, channels, warnings,
                   lineup, m3uFile, m3uAttempts, epgIdx, epgLog, epgFile,
                   epgAttempts>>

\* Lines 162-166: one iteration of generate_epg_xml's first loop.
GenerateEpgChannel ==
    /\ pc = "epg_channels"
    /\ chIdx < Len(channels)
    /\ tv' = Append(tv, ChannelElement(channels[chIdx + 1]))
    /\ chIdx' = chIdx + 1
    /\ UNCHANGED <<pc, dirExists, fetchVars, rawChannels, normIdx, channels, warnings,
                   lineup, m3uFile, m3uAttempts, epgIdx, epgLog, epgFile,
                   epgAttempts>>

\* The first loop is over.
GenerateEpgChannelsDone ==
    /\ pc = "epg_channels"
    /\ chIdx = Len(channels)
    /\ pc' = "epg_programs"
    /\ UNCHANGED <<fetchVars, mainVars>>

\* Line 170 and lines 119-132: get_epg_data(channel['id']) calls fetch_data.
GetEpgDataCall ==
    /\ pc = "epg_programs"
    /\ epgIdx < Len(channels)
    /\ pc' = "get_epg_data"
    /\ FetchCalled(DefaultRetries)
    /\ UNCHANGED mainVars

\* AddProgrammes that leaves the loop at a channel without schedule data.
AddProgrammesStopsAtNoData ==
    /\ pc = "get_epg_data"
    /\ fState = "returned"
    /\ LET channel == channels[epgIdx + 1]
           programs == EpgPrograms(fResult)
       IN  IF programs.t # "list"
           THEN /\ pc' = "raised_generate_epg_xml"
                /\ UNCHANGED <<tv, epgLog, epgIdx>>
           ELSE /\ tv' = tv \o ProgrammeElements(channel, programs.v)
                /\ epgLog' = Append(epgLog,
                        IF fResult = None THEN "failed"
                        ELSE IF Falsy(fResult) \/ fResult.programs.t = "absent"
                        THEN "nokey" ELSE "programs")
                /\ epgIdx' = IF Falsy(fResult) \/ fResult.programs.t = "absent"
                             THEN Len(channels) ELSE epgIdx + 1
                /\ pc' = "epg_programs"
    /\ FetchIdle
    /\ UNCHANGED <<dirExists, rawChannels, normIdx, channels, warnings, lineup,
                   m3uFile, m3uAttempts, chIdx, epgFile, epgAttempts>>

\* Lines 134-138 and 171-192: get_epg_data returns, the channel's programs are
\* added. Iterating over programs that are no list raises TypeError, which
\* nothing catches.
AddProgrammes ==
    /\ pc = "get_epg_data"
    /\ fState = "returned"
    /\ LET channel == channels[epgIdx + 1]
           programs == EpgPrograms(fResult)
       IN  IF programs.t # "list"
           THEN /\ pc' = "raised_generate_epg_xml"
                /\ UNCHANGED <<tv, epgLog, epgIdx>>
           ELSE /\ tv' = tv \o ProgrammeElements(channel, programs.v)
                /\ epgLog' = Append(epgLog,
                        IF fResult = None THEN "failed"
                        ELSE IF Falsy(fResult) \/ fResult.programs.t = "absent"
                        THEN "nokey" ELSE "programs")
                /\ epgIdx' = epgIdx + 1
                /\ pc' = "epg_programs"
    /\ FetchIdle
    /\ UNCHANGED <<dirExists, rawChannels, normIdx, channels, warnings, lineup,
                   m3uFile, m3uAttempts, chIdx, epgFile, epgAttempts>>

\* Line 194: the second loop is over, generate_epg_xml returns the tree.
GenerateEpgReturns ==
    /\ pc = "epg_programs"
    /\ epgIdx = Len(channels)
    /\ pc' = "save_gzipped_xml"
    /\ UNCHANGED <<fetchVars, mainVars>>

\* save_gzipped_xml (lines 207-226): serialising or writing may raise; logged.
SaveGzippedXml ==
    /\ pc = "save_gzipped_xml"
    /\ \E written \in BOOLEAN :
          epgFile' = IF written /\ Serializable(tv) THEN <<tv>> ELSE epgFile
    /\ epgAttempts' = epgAttempts + 1
    /\ pc' = "done"
    /\ UNCHANGED <<dirExists, fetchVars, rawChannels, normIdx, channels, warnings,
                   lineup, m3uFile, m3uAttempts, tv, chIdx, epgIdx, epgLog>>

\* The state main starts in.
MainStart ==
    /\ rawChannels = <<>>
    /\ normIdx = 0
    /\ channels = <<>>
    /\ warnings = <<>>
    /\ lineup = ""
    /\ m3uFile = <<>>
    /\ m3uAttempts = 0
    /\ tv = <<>>
    /\ chIdx = 0
    /\ epgIdx = 0
    /\ epgLog = <<>>
    /\ epgFile = <<>>
    /\ epgAttempts = 0

Init ==
    /\ pc = "ensure_output_dir"
    /\ dirExists \in BOOLEAN
    /\ fState = "idle"
    /\ fRetries = 0
    /\ fAttempt = 0
    /\ fLog = <<>>
    /\ fSleeps = <<>>
    /\ fResult = None
    /\ MainStart

Next ==
    \/ EnsureOutputDir
    \/ GetChannelsCall
    \/ FetchLineupSucceeds
    \/ FetchEpgSucceeds
    \/ FetchFails
    \/ FetchNotJson
    \/ FetchRaised
    \/ GetChannelsFetched
    \/ NormalizeStep
    \/ NormalizeDone
    \/ MainNoChannels
    \/ WritePlaylist
    \/ GenerateEpgChannel
    \/ GenerateEpgChannelsDone
    \/ GetEpgDataCall
    \/ AddProgrammes
    \/ GenerateEpgReturns
    \/ SaveGzippedXml

Spec == Init /\ [][Next]_vars

(***************************************************************************)
(* One call of fetch_data on its own, with any number of retries.          *)
(***************************************************************************)
FetchAloneSucceeds ==
    /\ pc = "fetch_data"
    /\ FetchSucceeds({JObject(Absent, Absent, TRUE), JObject(Absent, Absent, FALSE)})
    /\ UNCHANGED <<pc, mainVars>>

FetchLoopOver ==
    /\ pc = "fetch_data"
    /\ FetchLoopEnds
    /\ UNCHANGED <<pc, mainVars>>

FetchInit ==
    /\ pc = "fetch_data"
    /\ dirExists = TRUE
    /\ fState = "attempt"
    /\ fRetries \in (0 - 1)..MaxRetries
    /\ fAttempt = 0
    /\ fLog = <<>>
    /\ fSleeps = <<>>
    /\ fResult = None
    /\ MainStart

FetchNext ==
    \/ FetchAloneSucceeds
    \/ FetchFails
    \/ FetchNotJson
    \/ FetchLoopOver

\* fetch_data runs on: a request ends (REQUEST_TIMEOUT bounds it) and a sleep ends.
FetchSpec == FetchInit /\ [][FetchNext]_vars /\ WF_vars(FetchNext)

(***************************************************************************)
(* Vocabulary of the properties.                                           *)
(***************************************************************************)
HasStream(channel) == Truthy(channel.stream_url)
IsChannelElement(e) == e.tag = "channel"
IsProgrammeElement(e) == e.tag = "programme"
ExtInfMark == "#EXTINF:-1 tvg-id=\""
Unknown == JStr(<<"Unknown">>)

\* The lineup gave main no channel: fetch_data returned None, the answer had no
\* 'channels' key, or no entry of it made a record.
NoChannels ==
    \/ lineup \in {"failed", "nokey"}
    \/ lineup = "list" /\ channels = <<>>

\* An entry get_channels cannot make a record of: not a JSON object, or a URL
\* that is there and is not text.
Malformed(entry) ==
    \/ ~entry.obj
    \/ entry.streamUrl.t \in {"num", "list"}
    \/ entry.logoUrl.t \in {"num", "list"}

WellFormed(entry) == ~Malformed(entry)

\* The records of the well-formed entries, in their order.
RECURSIVE RecordsOf(_)
RecordsOf(entries) ==
    IF entries = <<>> THEN <<>>
    ELSE (IF WellFormed(Head(entries))
          THEN <<NormalizeEntry(Head(entries)).record>> ELSE <<>>)
            \o RecordsOf(Tail(entries))

\* get_epg_data has no schedule data: every attempt failed, or no 'programs' key.
NoScheduleData(data) == data = None \/ data.programs.t = "absent"

\* fetch_data is over.
FetchOver == fState \in {"returned", "raised"}

(***************************************************************************)
(* C1: when the lineup gives no channels (every attempt of the fetch       *)
(* failed, the answer has no 'channels' key, or no entry made a record),   *)
(* get_channels returns the empty list and main returns: the playlist and  *)
(* the guide are never opened or written, the guide tree is never begun    *)
(* and no EPG request is made.                                             *)
(***************************************************************************)
C1_NoChannelsNoArtifacts ==
    NoChannels =>
        /\ channels = <<>>
        /\ pc \in {"got_channels", "aborted"}
        /\ fState = "idle"
        /\ m3uAttempts = 0 /\ m3uFile = <<>>
        /\ epgAttempts = 0 /\ epgFile = <<>>
        /\ tv = <<>> /\ epgLog = <<>>

C1_Witness == pc = "aborted" /\ lineup = "failed"

(***************************************************************************)
(* C2: a "channels" array with exactly one malformed entry, whatever its   *)
(* place and shape, gives exactly the records of the other entries, in     *)
(* order, one warning, and no exception leaves get_channels.               *)
(***************************************************************************)
C2_OneMalformedEntrySkipped ==
    Cardinality({i \in DOMAIN rawChannels : Malformed(rawChannels[i])}) = 1 =>
        /\ pc # "raised_get_channels"
        /\ lineup = "list" =>
              /\ channels = RecordsOf(rawChannels)
              /\ Len(warnings) = 1

(***************************************************************************)
(* C3: the playlist is the #EXTM3U line, then for each channel with a      *)
(* non-empty stream_url, in input order, its #EXTINF line and its stream   *)
(* URL line, and nothing for a channel without one: as many #EXTINF lines  *)
(* as channels with a stream URL.                                          *)
(***************************************************************************)
C3_PlaylistEntries ==
    m3uFile # <<>> =>
        LET content == m3uFile[1]
            streaming == SelectSeq(channels, HasStream)
        IN  /\ Len(content) = 1 + 2 * Len(streaming)
            /\ content[1] = <<"#EXTM3U x-tvg-url=", "lgchannels_epg.xml.gz">>
            /\ \A k \in 1..Len(streaming) :
                  /\ content[2 * k][1] = ExtInfMark
                  /\ content[2 * k][2] = Format(streaming[k].id)[1]
                  /\ content[2 * k + 1] = streaming[k].stream_url.v
            /\ Cardinality({k \in DOMAIN content : content[k][1] = ExtInfMark})
                  = Len(streaming)

C3_Witness ==
    /\ m3uFile # <<>>
    /\ Len(channels) = 2
    /\ HasStream(channels[2]) /\ ~HasStream(channels[1])

(***************************************************************************)
(* C4: once generate_epg_xml's first loop is over, and whatever the EPG    *)
(* requests give, the tree holds exactly one <channel> element per channel *)
(* record, in the order of the records, with or without a stream URL or    *)
(* programs; while the loop runs it holds one per record done.             *)
(***************************************************************************)
C4_OneChannelElementPerRecord ==
    LET elements == SelectSeq(tv, IsChannelElement)
    IN  /\ Len(elements) = chIdx
        /\ pc \in {"epg_programs", "get_epg_data", "save_gzipped_xml", "done"}
              => chIdx = Len(channels)
        /\ \A i \in 1..Len(elements) :
              /\ elements[i].attrs[1] = Attr("id", Format(channels[i].id))
              /\ elements[i].children[1] = Child("display-name", channels[i].name)
        /\ epgFile # <<>> => SelectSeq(epgFile[1], IsChannelElement) = elements

C4_Witness ==
    /\ pc = "done"
    /\ Len(channels) = 2
    /\ ~HasStream(channels[1])
    /\ epgLog = <<"failed", "programs">>
    /\ Len(SelectSeq(tv, IsChannelElement)) = 2

(***************************************************************************)
(* C5: when get_epg_data has no schedule data for a channel (all attempts  *)
(* failed, or no 'programs' key) it adds no programme and the loop goes on *)
(* to the next channel; from the loop's head the next channel is queried,  *)
(* or, after the last one, save_gzipped_xml is called; and when main is    *)
(* done every channel was queried and the guide write was attempted.       *)
(***************************************************************************)
C5_NoScheduleDataDoesNotBlock ==
    /\ [][(pc = "get_epg_data" /\ fState = "returned" /\ NoScheduleData(fResult))
            => /\ tv' = tv
               /\ epgIdx' = epgIdx + 1
               /\ pc' = "epg_programs"]_vars
    /\ [][pc = "epg_programs"
            => IF epgIdx < Len(channels)
               THEN pc' = "get_epg_data" /\ fState' = "attempt"
               ELSE pc' = "save_gzipped_xml"]_vars
    /\ [][pc = "save_gzipped_xml" => epgAttempts' = epgAttempts + 1]_vars
    /\ [](pc = "done" => Len(epgLog) = Len(channels) /\ epgAttempts = 1)

C5_Witness ==
    /\ pc = "done"
    /\ Len(channels) = 2
    /\ epgLog = <<"nokey", "programs">>
    /\ \E j \in DOMAIN tv :
          /\ IsProgrammeElement(tv[j])
          /\ tv[j].attrs[1].value = Format(channels[2].id)

(***************************************************************************)
(* C6: in a run with a non-empty channel list the playlist write is        *)
(* attempted before any EPG request, guide element or guide write; when    *)
(* the run has ended each artifact has been attempted exactly once, the    *)
(* guide also when the playlist write failed; and a playlist that was      *)
(* written stays as written, also when the guide write fails.              *)
(***************************************************************************)
C6_EachArtifactAttemptedOnce ==
    (lineup = "list" /\ channels # <<>>) =>
        /\ (pc \in {"epg_channels", "epg_programs", "get_epg_data", "save_gzipped_xml"}
              \/ tv # <<>> \/ epgLog # <<>> \/ epgAttempts > 0)
              => m3uAttempts = 1
        /\ pc \in ({"done"} \cup Raised)
              => m3uAttempts = 1 /\ epgAttempts = 1
        /\ m3uFile # <<>> => m3uFile = <<generate_m3u_playlist(channels)>>

(***************************************************************************)
(* C7: fetch_data never raises to its caller: every failed attempt, a      *)
(* body that is not JSON included, is retried, and when all have failed    *)
(* fetch_data returns None.                                                *)
(***************************************************************************)
C7_FetchNeverRaises ==
    /\ fState # "raised"
    /\ pc # "raised_fetch_data"
    /\ (fState = "returned" /\ fLog # <<>> /\ fLog[Len(fLog)] # "ok")
          => fResult = None /\ Len(fLog) = fRetries + 1

(***************************************************************************)
(* C8: every record of get_channels has the name "Unknown" when the raw    *)
(* entry's 'name' is missing or null, and the raw name otherwise: no       *)
(* record has a null name.                                                 *)
(***************************************************************************)
C8_NameDefaultsToUnknown ==
    \A i \in DOMAIN channels :
        /\ channels[i].name.t # "null"
        /\ \A j \in DOMAIN rawChannels :
              (rawChannels[j].obj /\ GetOrNone(rawChannels[j].channelId) = channels[i].id)
                 => channels[i].name =
                       IF rawChannels[j].name.t \in {"absent", "null"}
                       THEN Unknown ELSE rawChannels[j].name

(***************************************************************************)
(* C9: in every state of the tree, every <channel> element comes before    *)
(* every <programme> element, and every <programme> has the channel        *)
(* attribute of an earlier <channel> element's id, that of a channel       *)
(* record that was queried.                                                *)
(***************************************************************************)
C9_ProgrammeRefersToChannel ==
    /\ \A i, j \in DOMAIN tv :
          (i < j /\ IsProgrammeElement(tv[i])) => IsProgrammeElement(tv[j])
    /\ \A j \in DOMAIN tv :
          IsProgrammeElement(tv[j]) =>
              /\ tv[j].attrs[1].name = "channel"
              /\ \E i \in 1..(j - 1) :
                    /\ IsChannelElement(tv[i])
                    /\ tv[i].attrs[1].name = "id"
                    /\ tv[i].attrs[1].value = tv[j].attrs[1].value
              /\ \E k \in DOMAIN epgLog :
                    /\ epgLog[k] = "programs"
                    /\ Format(channels[k].id) = tv[j].attrs[1].value

C9_Witness ==
    /\ pc = "get_epg_data"
    /\ epgIdx = 1
    /\ \E j \in DOMAIN tv : IsProgrammeElement(tv[j])

(***************************************************************************)
(* C10: one call of fetch_data with retries = r makes at most r + 1        *)
(* requests and none after one that succeeded, sleeps k seconds after the  *)
(* k-th failed request when another follows (1, 2, ...), does not sleep    *)
(* after the last request, and ends.                                       *)
(***************************************************************************)
C10_BoundedRetries ==
    /\ [](/\ Len(fLog) <= fRetries + 1
          /\ \A k \in DOMAIN fLog : fLog[k] = "ok" => k = Len(fLog)
          /\ \A k \in DOMAIN fSleeps : fSleeps[k] = k
          /\ fState = "attempt" => Len(fSleeps) = Len(fLog)
          /\ (FetchOver /\ fLog # <<>>) => Len(fSleeps) = Len(fLog) - 1
          /\ (FetchOver /\ fLog = <<>>) => fSleeps = <<>>)
    /\ <>FetchOver

C10_Witness ==
    /\ fState = "returned"
    /\ fResult = None
    /\ fRetries = DefaultRetries
    /\ Len(fLog) = 3
    /\ fSleeps = <<1, 2>>

====
